---------------------------- MODULE Spec2Model ----------------------------
(***************************************************************************)
(* Model of the client-side data layer of the user/todo browser:           *)
(*   - the selection state persisted in the address (useUserSelection),    *)
(*   - the branded identifier constructors (UserId.fromString),            *)
(*   - the remote collection readers (fetchTodosByUserId, fetchUsers).     *)
(* Text is modelled as a sequence of one-character strings so that the     *)
(* conversions String(n) and parseInt(s, 10) are computed, not assumed.    *)
(***************************************************************************)
EXTENDS Integers, Sequences, FiniteSets, TLC

(***************************************************************************)
(* Bounds of the model.                                                    *)
(***************************************************************************)
\* Largest user id that select is called with (two-digit ids included).
MaxUserId == 11
\* Largest number of items in a server payload.
MaxPayload == 3
\* Largest task id in a server payload.
MaxTodoId == 3
\* Largest userId carried by a task of a server payload.
MaxOwner == 2

(***************************************************************************)
(* Text and numbers.                                                       *)
(***************************************************************************)
Digits == <<"0", "1", "2", "3", "4", "5", "6", "7", "8", "9">>

DigitChars == {Digits[i] : i \in 1..10}

DigitVal(c) == (CHOOSE i \in 1..10 : Digits[i] = c) - 1

\* String(n) of a non-negative integer: its decimal digits.
RECURSIVE NumberToString(_)
NumberToString(n) ==
  IF n < 10 THEN <<Digits[n + 1]>>
  ELSE NumberToString(n \div 10) \o <<Digits[(n % 10) + 1]>>

\* The text of the literal 'true'.
TrueText == <<"t", "r", "u", "e">>

\* parseInt skips leading white space.
RECURSIVE SkipWhiteSpace(_)
SkipWhiteSpace(s) ==
  IF s # <<>> /\ Head(s) = " " THEN SkipWhiteSpace(Tail(s)) ELSE s

\* Length of the longest prefix of s made of decimal digits.
RECURSIVE DigitPrefixLen(_)
DigitPrefixLen(s) ==
  IF s # <<>> /\ Head(s) \in DigitChars THEN 1 + DigitPrefixLen(Tail(s)) ELSE 0

\* Value of a sequence of decimal digits.
RECURSIVE DigitsValue(_)
DigitsValue(s) ==
  IF s = <<>> THEN 0
  ELSE 10 * DigitsValue(SubSeq(s, 1, Len(s) - 1)) + DigitVal(s[Len(s)])

\* parseInt(s, 10) with a mutated body: reads one digit only.
parseIntFirstDigit(s) ==
  IF s # <<>> /\ Head(s) \in DigitChars
  THEN [nan |-> FALSE, val |-> DigitVal(Head(s))]
  ELSE [nan |-> TRUE, val |-> 0]

\* parseInt(s, 10): white space, an optional sign, then the longest digit
\* prefix; NaN when that prefix is empty.  Whatever follows is ignored.
parseInt(s) ==
  LET t    == SkipWhiteSpace(s)
      neg  == t # <<>> /\ Head(t) = "-"
      body == IF t # <<>> /\ Head(t) \in {"+", "-"} THEN Tail(t) ELSE t
      n    == DigitPrefixLen(body)
      v    == DigitsValue(SubSeq(body, 1, n))
  IN IF n = 0 THEN [nan |-> TRUE, val |-> 0]
     ELSE [nan |-> FALSE, val |-> IF neg THEN 0 - v ELSE v]

(***************************************************************************)
(* fp-ts Option and the branded UserId.                                    *)
(***************************************************************************)
None == [tag |-> "None", value |-> 0]

Some(x) == [tag |-> "Some", value |-> x]

\* UserId.fromString
fromString(s) ==
  LET parsed == parseInt(s)
  IN IF ~parsed.nan /\ parsed.val > 0 THEN Some(parsed.val) ELSE None

(***************************************************************************)
(* URLSearchParams: a function from the names present to their text.       *)
(***************************************************************************)
ParamsHas(p, k) == k \in DOMAIN p

ParamsSet(p, k, v) == [x \in (DOMAIN p) \cup {k} |-> IF x = k THEN v ELSE p[x]]

ParamsDelete(p, k) == [x \in (DOMAIN p) \ {k} |-> p[x]]

\* selectedUserId: O.fromNullable(get('userId')) chained with fromString
selectedUserId(p) ==
  IF ParamsHas(p, "userId") THEN fromString(p["userId"]) ELSE None

\* hideCompleted read with a mutated body: any present value counts as on.
hideCompletedIfPresent(p) == ParamsHas(p, "hideCompleted")

\* hideCompleted: get('hideCompleted') === 'true'
hideCompleted(p) ==
  ParamsHas(p, "hideCompleted") /\ p["hideCompleted"] = TrueText

\* selectUser updater with a mutated body: the filter is not reset.
selectUserKeepFilter(p, userId) == ParamsSet(p, "userId", NumberToString(userId))

\* selectUser updater with a mutated body: the filter is reset only when
\* the user differs from the one in the parameters.
selectUserResetOnChange(p, userId) ==
  IF selectedUserId(p) = Some(userId)
  THEN ParamsSet(p, "userId", NumberToString(userId))
  ELSE ParamsDelete(ParamsSet(p, "userId", NumberToString(userId)),
                    "hideCompleted")

\* The updater passed to setSearchParams by selectUser.
selectUserUpdate(p, userId) ==
  ParamsDelete(ParamsSet(p, "userId", NumberToString(userId)), "hideCompleted")

\* clearSelection updater with a mutated body: it returns fresh, empty
\* parameters.
clearSelectionFresh(p) == <<>>

\* clearSelection updater with a mutated body: the filter is kept.
clearSelectionKeepFilter(p) == ParamsDelete(p, "userId")

\* The updater passed to setSearchParams by clearSelection.
clearSelectionUpdate(p) == ParamsDelete(ParamsDelete(p, "userId"), "hideCompleted")

\* toggleHideCompleted updater with a mutated body: a parameter that is
\* present counts as on, whatever its text.
toggleHideCompletedByPresence(p) ==
  IF ParamsHas(p, "hideCompleted")
  THEN ParamsDelete(p, "hideCompleted")
  ELSE ParamsSet(p, "hideCompleted", TrueText)

\* toggleHideCompleted updater with a mutated body: it rebuilds the
\* parameters from the filter alone.
toggleHideCompletedFresh(p) ==
  IF hideCompleted(p) THEN <<>> ELSE ParamsSet(<<>>, "hideCompleted", TrueText)

\* The updater passed to setSearchParams by toggleHideCompleted.
toggleHideCompletedUpdate(p) ==
  IF ParamsHas(p, "hideCompleted") /\ p["hideCompleted"] = TrueText
  THEN ParamsDelete(p, "hideCompleted")
  ELSE ParamsSet(p, "hideCompleted", TrueText)

\* The updater passed to setSearchParams by setHideCompleted.
setHideCompletedUpdate(p, value) ==
  IF value THEN ParamsSet(p, "hideCompleted", TrueText)
  ELSE ParamsDelete(p, "hideCompleted")

(***************************************************************************)
(* fp-ts Either, as produced by a TaskEither when it is run.               *)
(***************************************************************************)
Left(e) == [tag |-> "Left", left |-> e]

Right(a) == [tag |-> "Right", right |-> a]

(***************************************************************************)
(* Orderings.  Characters of names are drawn from Alphabet, listed in      *)
(* UTF-16 code unit order (space < upper case < lower case).               *)
(***************************************************************************)
Alphabet == <<" ", "A", "B", "a", "b">>

CharCode(c) == CHOOSE i \in 1..Len(Alphabet) : Alphabet[i] = c

IsUpper(c) == c \in {"A", "B"}

\* String.prototype.toLowerCase on one character
ToLowerChar(c) == CASE c = "A" -> "a" [] c = "B" -> "b" [] OTHER -> c

ToLowerCase(s) == [i \in 1..Len(s) |-> ToLowerChar(s[i])]

\* N.Ord.compare
NumberCompare(x, y) == IF x < y THEN 0 - 1 ELSE IF x > y THEN 1 ELSE 0

\* S.Ord.compare: lexicographic on code units, a proper prefix first.
RECURSIVE StringCompare(_, _)
StringCompare(x, y) ==
  IF x = <<>> THEN (IF y = <<>> THEN 0 ELSE 0 - 1)
  ELSE IF y = <<>> THEN 1
  ELSE IF Head(x) = Head(y) THEN StringCompare(Tail(x), Tail(y))
  ELSE NumberCompare(CharCode(Head(x)), CharCode(Head(y)))

\* Primary collation weight of a character: letters by alphabet position
\* whatever their case, space below every letter.
PrimaryWeight(c) == CharCode(ToLowerChar(c))

RECURSIVE PrimaryCompare(_, _)
PrimaryCompare(x, y) ==
  IF x = <<>> THEN (IF y = <<>> THEN 0 ELSE 0 - 1)
  ELSE IF y = <<>> THEN 1
  ELSE IF PrimaryWeight(Head(x)) = PrimaryWeight(Head(y))
       THEN PrimaryCompare(Tail(x), Tail(y))
  ELSE NumberCompare(PrimaryWeight(Head(x)), PrimaryWeight(Head(y)))

\* Tertiary (case) comparison of two texts equal at the primary level:
\* at the first difference the lower-case letter comes first.
RECURSIVE CaseCompare(_, _)
CaseCompare(x, y) ==
  IF x = <<>> \/ y = <<>> THEN 0
  ELSE IF IsUpper(Head(x)) = IsUpper(Head(y)) THEN CaseCompare(Tail(x), Tail(y))
  ELSE IF IsUpper(Head(x)) THEN 1 ELSE 0 - 1

\* String.prototype.localeCompare with the default collation: base letters
\* decide; case breaks ties only.
localeCompare(x, y) ==
  LET p == PrimaryCompare(x, y)
  IN IF p # 0 THEN p ELSE CaseCompare(x, y)

\* UserOrd.byName: S.Ord on the lower-cased name
UserOrdByName(a, b) == StringCompare(ToLowerCase(a.name), ToLowerCase(b.name))

\* TodoOrd.byId: N.Ord on the id
TodoOrdById(a, b) == NumberCompare(a.id, b.id)

\* The comparators handed to a sort, by name.
Compare(ord, a, b) ==
  CASE ord = "TodoOrd.byId"    -> TodoOrdById(a, b)
    [] ord = "UserOrd.byName"  -> UserOrdByName(a, b)
    [] ord = "localeCompare"   -> localeCompare(a.name, b.name)
    [] ord = "codeUnit"        -> StringCompare(a.name, b.name)

\* Insert x behind every element that does not compare greater than it.
RECURSIVE InsertSorted(_, _, _)
InsertSorted(ord, s, x) ==
  IF s = <<>> THEN <<x>>
  ELSE IF Compare(ord, s[Len(s)], x) <= 0 THEN Append(s, x)
  ELSE Append(InsertSorted(ord, SubSeq(s, 1, Len(s) - 1), x), s[Len(s)])

\* Array.prototype.sort with a comparator (stable), as used by A.sort.
RECURSIVE Sort(_, _)
Sort(ord, s) ==
  IF s = <<>> THEN <<>>
  ELSE InsertSorted(ord, Sort(ord, SubSeq(s, 1, Len(s) - 1)), s[Len(s)])

\* A.filter / Array.prototype.filter keeping the todos of one user
RECURSIVE FilterByUserId(_, _)
FilterByUserId(todos, userId) ==
  IF todos = <<>> THEN <<>>
  ELSE IF Head(todos).userId = userId
       THEN <<Head(todos)>> \o FilterByUserId(Tail(todos), userId)
       ELSE FilterByUserId(Tail(todos), userId)

(***************************************************************************)
(* The remote collection readers, applied to the Either that fetchJson     *)
(* resolves to.                                                            *)
(***************************************************************************)
\* fetchTodosByUserId with a mutated body: the filter without the sort.
fetchTodosFilterOnly(userId, response) ==
  IF response.tag = "Right"
  THEN Right(FilterByUserId(response.right, userId))
  ELSE response

\* fetchTodosByUserId: TE.map(flow(A.filter(userId matches), A.sort(byId)))
fetchTodosByUserId(userId, response) ==
  IF response.tag = "Right"
  THEN Right(Sort("TodoOrd.byId", FilterByUserId(response.right, userId)))
  ELSE response

\* fetchUsers with a mutated body: names compared by code unit.
fetchUsersCodeUnit(response) ==
  IF response.tag = "Right"
  THEN Right(Sort("codeUnit", response.right))
  ELSE response

\* fetchUsers: TE.map(users => users.sort(localeCompare on name))
fetchUsers(response) ==
  IF response.tag = "Right"
  THEN Right(Sort("localeCompare", response.right))
  ELSE response

(***************************************************************************)
(* The HTTP layer.  One exchange with the server ends in one of: the       *)
(* fetch promise rejecting (transport failure), the timeout promise        *)
(* winning the race, or a response with a status and a body.  A body is    *)
(* "valid" (JSON that the codec accepts), "mismatch" (JSON that the codec  *)
(* rejects) or "notjson" (response.json() rejects with a SyntaxError).     *)
(***************************************************************************)
\* DEFAULT_CONFIG
DEFAULT_RETRIES == 3

DEFAULT_RETRY_DELAY == 1000

Statuses == {200, 201, 302, 400, 401, 403, 404, 500, 503}

Bodies == {"valid", "mismatch", "notjson"}

Exchanges ==
  { [type |-> "rejected", status |-> 0, body |-> "none"],
    [type |-> "timeout", status |-> 0, body |-> "none"] }
    \cup { [type |-> "response", status |-> st, body |-> b] :
             st \in Statuses, b \in Bodies }

\* Response.ok
ResponseOk(status) == status >= 200 /\ status <= 299

\* DomainError constructors
networkError == [tag |-> "NetworkError", status |-> 0]

validationError == [tag |-> "ValidationError", status |-> 0]

notFoundError == [tag |-> "NotFoundError", status |-> 404]

unauthorizedError == [tag |-> "UnauthorizedError", status |-> 401]

serverError(status) == [tag |-> "ServerError", status |-> status]

\* createApiError of api/users.ts: a message, and no tag.
apiError == [tag |-> "ApiError", status |-> 0]

\* What the async function handed to TE.tryCatch does with an exchange: it
\* returns the parsed body, or throws.  A thrown value is an Error instance
\* (rejected fetch, timeout, SyntaxError of response.json()) or a
\* DomainError object.
requestThunk(x) ==
  IF x.type \in {"rejected", "timeout"}
  THEN [threw |-> TRUE, isError |-> TRUE, value |-> networkError, data |-> "none"]
  ELSE IF ~ResponseOk(x.status)
  THEN [threw |-> TRUE, isError |-> FALSE, data |-> "none",
        value |-> IF x.status = 404 THEN notFoundError
                  ELSE IF x.status = 401 \/ x.status = 403 THEN unauthorizedError
                  ELSE IF x.status >= 500 THEN serverError(x.status)
                  ELSE serverError(x.status)]
  ELSE IF x.body = "notjson"
  THEN [threw |-> TRUE, isError |-> TRUE, value |-> networkError, data |-> "none"]
  ELSE [threw |-> FALSE, isError |-> FALSE, value |-> networkError,
        data |-> x.body]

\* onRejected with a mutated body: the branch that passes a DomainError
\* object on is missing, every thrown value becomes a NetworkError.
onRejectedAllNetwork(thrown) == networkError

\* The onRejected handler of TE.tryCatch: an Error instance becomes a
\* NetworkError, a DomainError object is passed on.
onRejected(thrown) ==
  IF thrown.isError THEN networkError ELSE thrown.value

\* fetchWithTimeout, and the fetchTask of fetchJsonWithBody: one exchange
\* mapped to an Either.
fetchWithTimeout(x) ==
  LET r == requestThunk(x)
  IN IF r.threw THEN Left(onRejected(r)) ELSE Right(r.data)

\* validateData: codec.decode with its errors mapped to a ValidationError
validateData(data) ==
  IF data = "valid" THEN Right("decoded") ELSE Left(validationError)

\* TE.chainEitherKW((data) => validateData(codec, data))
chainValidateData(e) == IF e.tag = "Right" THEN validateData(e.right) ELSE e

\* fetchJson of api/users.ts: no timeout, no validation, and every failure
\* mapped to an ApiError.
usersFetchJson(x) ==
  IF x.type = "rejected" THEN Left(apiError)
  ELSE IF ~ResponseOk(x.status) THEN Left(apiError)
  ELSE IF x.body = "notjson" THEN Left(apiError)
  ELSE Right("decoded")

\* The task that one attempt of a client call runs.
\*   listUsers        : fetchJson of api/users.ts
\*   listTasksForUser : fetchWithTimeout chained with validateData
\*   updateTask       : the fetch of fetchJsonWithBody (validated after
\*                      the retries)
attemptTask(kind, x) ==
  CASE kind = "listUsers"        -> usersFetchJson(x)
    [] kind = "listTasksForUser" -> chainValidateData(fetchWithTimeout(x))
    [] kind = "updateTask"       -> fetchWithTimeout(x)

\* What is applied to the outcome of the retried task.
afterRetry(kind, e) ==
  IF kind = "updateTask" THEN chainValidateData(e) ELSE e

\* The default of the maxRetries parameter of fetchTodosByUserIdWithRetry
DEFAULT_MAX_RETRIES == 3

\* The retries a call starts with, with a mutated body: updateTask is
\* not retried.
retriesOfNoMutationRetry(kind) ==
  IF kind \in {"listUsers", "updateTask"} THEN 0 ELSE DEFAULT_RETRIES

\* The retries a call starts with: DEFAULT_CONFIG.retries where withRetry
\* is used, none in api/users.ts.
retriesOf(kind) == IF kind = "listUsers" THEN 0 ELSE DEFAULT_RETRIES

\* The delay of the next retry with a mutated body: it stays the same.
nextDelayConstant(delay) == delay

\* The delay of the next retry: withRetry(task, retries - 1, delay * 2)
nextDelay(delay) == delay * 2

\* The test of withRetry with a mutated body: every failure is retried.
shouldRetryAny(error, retries) == retries > 0

\* The test of withRetry: only a NetworkError is retried, while retries
\* are left.
shouldRetry(error, retries) == error.tag = "NetworkError" /\ retries > 0

(***************************************************************************)
(* The optimistic update of a task (hooks/useTodos.ts).  The query cache   *)
(* is a function from the userId of a ['todos', userId] key to an entry:   *)
(* has (a list is cached), data (the list), invalidated (marked for        *)
(* refetch).                                                               *)
(***************************************************************************)
\* The most mutations started in one behaviour.
MaxMutations == 2

\* The users whose lists the page shows.
CacheKeys == {1, 2}

\* The userId part of the key when no user is selected: null.
NullKey == 0

\* The keys ['todos', x] the hook can read and write.
EntryKeys == CacheKeys \cup {NullKey}

NoTodo == [id |-> 0, userId |-> 0, completed |-> FALSE]

\* An entry with no list.
NoEntry == [has |-> FALSE, data |-> <<>>, invalidated |-> FALSE]

\* TodoLens.completed.modify((c) => !c)
toggleCompleted(todo) == [todo EXCEPT !.completed = ~todo.completed]

\* The map of onMutate with a mutated body: every task is replaced.
replaceEvery(old, updatedTodo) == [i \in DOMAIN old |-> updatedTodo]

\* old.map((todo) => todo.id === updatedTodo.id ? updatedTodo : todo)
replaceById(old, updatedTodo) ==
  [i \in DOMAIN old |->
     IF old[i].id = updatedTodo.id THEN updatedTodo ELSE old[i]]

\* queryClient.setQueryData: the entry holds the list given, and is no
\* longer marked.
setQueryData(c, key, data) ==
  [c EXCEPT ![key] = [has |-> TRUE, data |-> data, invalidated |-> FALSE]]

\* todos of the hook's return value: query.data ?? []
todosExposed(c, userIdValue) ==
  IF c[userIdValue].has THEN c[userIdValue].data ELSE <<>>

\* queryClient.invalidateQueries
invalidateQueries(c, key) == [c EXCEPT ![key].invalidated = TRUE]

\* onMutate, after cancelQueries: the snapshot of the list (the context)
\* and the cache with updatedTodo put in place of the task of its id, if a
\* list is cached.
onMutate(c, userIdValue, updatedTodo) ==
  LET previousTodos == c[userIdValue]
  IN [context |-> [has |-> previousTodos.has,
                   previousTodos |-> previousTodos.data],
      cache |-> IF previousTodos.has
                THEN setQueryData(c, userIdValue,
                                  replaceById(c[userIdValue].data, updatedTodo))
                ELSE c]

\* The cache write of onError: the snapshot is written back under the key
\* of the userId the callback sees.
onError(c, userIdValue, context, updatedTodo) ==
  IF context.has THEN setQueryData(c, userIdValue, context.previousTodos) ELSE c

\* The cache write of onSuccess with a mutated body: the echoed task is
\* put in place of the task of its id.
onSuccessWriteEcho(c, userIdValue, data) ==
  IF c[userIdValue].has
  THEN setQueryData(c, userIdValue, replaceById(c[userIdValue].data, data))
  ELSE c

\* The cache write of onSuccess: none, it only sets the toast.
onSuccess(c, userIdValue, data) == c

\* onSettled
onSettled(c, userIdValue) == invalidateQueries(c, userIdValue)

\* What the server can echo for a PUT of a task: the task as sent, or the
\* task with the completed value the server holds.
Echoes(todo) == {todo, toggleCompleted(todo)}

\* The failures updateTodo can end with: one of each variant.
UpdateErrors ==
  {networkError, validationError, notFoundError, unauthorizedError,
   serverError(500)}

\* The message the HTTP module gives the error it builds (the address of
\* the request and the text of a thrown Error are written as one piece).
messageOf(e) ==
  CASE e.tag = "NetworkError" -> <<"[message of the Error thrown]">>
    [] e.tag = "ValidationError" -> <<"Invalid response format from API">>
    [] e.tag = "NotFoundError" -> <<"Resource not found: ", "[url]">>
    [] e.tag = "UnauthorizedError" -> <<"Unauthorized access to: ", "[url]">>
    [] e.tag = "ServerError" ->
         (IF e.status >= 500 THEN <<"Server error: ">> ELSE <<"HTTP error: ">>)
           \o NumberToString(e.status)

\* domainErrorToMessage
domainErrorToMessage(e) ==
  CASE e.tag = "NetworkError" -> <<"Network error: ">> \o messageOf(e)
    [] e.tag = "ValidationError" -> <<"Validation error: ">> \o messageOf(e)
    [] e.tag = "NotFoundError" -> <<"Not found: ">> \o messageOf(e)
    [] e.tag = "UnauthorizedError" -> messageOf(e)
    [] e.tag = "ServerError" ->
         <<"Server error (">> \o NumberToString(e.status) \o <<"): ">>
           \o messageOf(e)

\* extractErrorMessage with a mutated body: the fallback, whatever the
\* error.
extractErrorMessageFallback(error, fallback) == fallback

\* extractErrorMessage: an object with a _tag is a DomainError; anything
\* else updateTodo cannot reject with gets the fallback.
extractErrorMessage(error, fallback) ==
  IF error.tag \in {"NetworkError", "ValidationError", "NotFoundError",
                    "UnauthorizedError", "ServerError"}
  THEN domainErrorToMessage(error)
  ELSE fallback

\* The toast set by onError.
errorToast(error) ==
  [type |-> "error",
   message |-> extractErrorMessage(error, <<"Failed to update TODO">>)]

\* The toast set by onSuccess.
infoToast ==
  [type |-> "info",
   message |-> <<"Note: JSONPlaceholder is a fake API. Changes are not persisted and will be reverted.">>]

(***************************************************************************)
(* The Toast component (components/Toast/Toast.tsx).  Times are in         *)
(* milliseconds since the notice was shown.  A timer is a record: set      *)
(* (pending) and due (the time it fires at).                               *)
(***************************************************************************)
\* duration = 3000
DEFAULT_DURATION == 3000

\* The hiding animation: setTimeout(..., duration + 300), setTimeout(onClose, 300)
HIDE_ANIMATION == 300

\* The most clicks on the close button, and the most renders of the parent
\* while the notice is shown, in one behaviour.
MaxClicks == 2

MaxRenders == 1

NoTimer == [set |-> FALSE, due |-> 0]

Timer(due) == [set |-> TRUE, due |-> due]

\* No Toast is mounted.
NoToastUi ==
  [mounted |-> FALSE, isVisible |-> FALSE, now |-> 0, hideTimer |-> NoTimer,
   closeTimer |-> NoTimer, manualTimers |-> <<>>, closes |-> 0, clicks |-> 0,
   renders |-> 0]

\* The effect of the component, run at time now: both timers are set.
toastEffect(t) ==
  [t EXCEPT !.hideTimer = Timer(t.now + DEFAULT_DURATION),
            !.closeTimer = Timer(t.now + DEFAULT_DURATION + HIDE_ANIMATION)]

\* The cleanup of the effect: clearTimeout(hideTimer), clearTimeout(closeTimer)
toastCleanup(t) == [t EXCEPT !.hideTimer = NoTimer, !.closeTimer = NoTimer]

\* onClose is clearToast of useTodos: setToast(null); Home stops rendering
\* the Toast, whose effect is cleaned up.
onClose(t) ==
  [(IF t.mounted THEN toastCleanup(t) ELSE t)
     EXCEPT !.mounted = FALSE, !.closes = t.closes + 1]

\* The times at which the pending timers are due.
PendingDues(t) ==
  (IF t.hideTimer.set THEN {t.hideTimer.due} ELSE {})
    \cup (IF t.closeTimer.set THEN {t.closeTimer.due} ELSE {})
    \cup { t.manualTimers[i] : i \in DOMAIN t.manualTimers }

\* A timer due at time due may fire: its time has come and no pending
\* timer is due earlier.
MayFire(t, due) == due <= t.now /\ \A d \in PendingDues(t) : due <= d

\* The sequence s without its element at position i.
RemoveAt(s, i) ==
  [j \in 1..(Len(s) - 1) |-> IF j < i THEN s[j] ELSE s[j + 1]]

(***************************************************************************)
(* The queries (useQuery in hooks/useTodos.ts and in                       *)
(* components/UserList/UserList.tsx, with the options of                   *)
(* config/reactQuery.ts and utils/queryClient.ts).  A query is a record:   *)
(* hasData and dataUpdatedAt (the data cached and the time it was          *)
(* fetched), invalidated, fetching (a fetch is going on), inFlight (the    *)
(* runs of queryFn the query waits for), abandoned (the runs of queryFn    *)
(* the query was cancelled on: queryFn passes no signal on, so their       *)
(* requests go on and their results are dropped), retryWait (the query     *)
(* waits before its retry), failureCount, isError, observers (the          *)
(* components mounted that read it).  The lists themselves are left out.   *)
(***************************************************************************)
\* QUERY_CONFIG.STALE_TIME
STALE_TIME == 1000 * 60 * 5

\* QUERY_CONFIG.RETRY
QUERY_RETRY == 1

\* The users whose task query is followed.  The queries of two keys share
\* no state, so the task query of one user is followed next to the query
\* of the user list.
QueryUsers == {1}

QueryKeys == { <<"users">> } \cup { <<"todos", u>> : u \in QueryUsers }

NoQuery ==
  [hasData |-> FALSE, dataUpdatedAt |-> 0, invalidated |-> FALSE,
   fetching |-> FALSE, inFlight |-> 0, abandoned |-> 0,
   retryWait |-> FALSE, failureCount |-> 0, isError |-> FALSE,
   observers |-> 0]

\* The fetch of a query is cancelled: the query no longer waits for the
\* runs of queryFn, which go on.
cancelFetch(q) ==
  [q EXCEPT !.fetching = FALSE, !.abandoned = @ + q.inFlight,
            !.inFlight = 0, !.retryWait = FALSE, !.failureCount = 0]

\* The requests of a key that are going on.
runsOf(q) == q.inFlight + q.abandoned

\* staleness with a mutated body: no staleTime, data is stale at once.
isStaleAtOnce(q, now) == TRUE

\* The data of a query is stale: it was invalidated, or it is staleTime
\* old.
isStale(q, now) == q.invalidated \/ now >= q.dataUpdatedAt + STALE_TIME

\* A component that starts to read a query makes it fetch: there is no
\* data, or the data is stale (refetchOnMount is left at its default).
shouldFetchOnMount(q, now) == ~q.hasData \/ isStale(q, now)

\* queryFn is run.
startFetch(q) ==
  [q EXCEPT !.fetching = TRUE, !.inFlight = @ + 1, !.retryWait = FALSE,
            !.failureCount = 0, !.isError = @ /\ q.hasData]

\* A read access with a mutated body: the fetch going on is not looked at.
observeQueryNoAttach(q, now) ==
  LET q1 == [q EXCEPT !.observers = @ + 1]
  IN IF shouldFetchOnMount(q, now) THEN startFetch(q1) ELSE q1

\* A component starts to read the query: it attaches to the fetch going
\* on, or it starts one if shouldFetchOnMount.
observeQuery(q, now) ==
  LET q1 == [q EXCEPT !.observers = @ + 1]
  IN IF q.fetching THEN q1
     ELSE IF shouldFetchOnMount(q, now) THEN startFetch(q1) ELSE q1

\* The run of queryFn a query waits for has rejected, with a mutated body:
\* the failure is not counted.
afterRejectionUncounted(q) ==
  IF q.observers > 0
  THEN [q EXCEPT !.inFlight = 0, !.retryWait = TRUE]
  ELSE [q EXCEPT !.inFlight = 0, !.fetching = FALSE, !.isError = TRUE]

\* The run of queryFn a query waits for has rejected: the query retries
\* once (retry: 1) if a component still reads it, else it is in error.
afterRejection(q) ==
  IF q.failureCount < QUERY_RETRY /\ q.observers > 0
  THEN [q EXCEPT !.inFlight = 0, !.retryWait = TRUE, !.failureCount = @ + 1]
  ELSE [q EXCEPT !.inFlight = 0, !.fetching = FALSE, !.failureCount = @ + 1,
                 !.isError = TRUE]

\* A component stops reading the query; a fetch going on is left to end,
\* but will not be retried.
unobserveQuery(q) == [q EXCEPT !.observers = @ - 1]

\* What is recorded of a read access.
Access(key, q, q2, now) ==
  [key |-> key, hadData |-> q.hasData, age |-> now - q.dataUpdatedAt,
   wasInvalidated |-> q.invalidated, wasFetching |-> q.fetching,
   wasError |-> q.isError, startedFetch |-> q2.inFlight > q.inFlight,
   fetchingAfter |-> q2.fetching,
   served |-> IF q2.hasData THEN "cached" ELSE "loading"]

NoAccess ==
  [key |-> <<"none">>, hadData |-> FALSE, age |-> 0,
   wasInvalidated |-> FALSE, wasFetching |-> FALSE, wasError |-> FALSE,
   startedFetch |-> FALSE, fetchingAfter |-> FALSE,
   served |-> "loading"]

(***************************************************************************)
(* The task list shown (components/TodoList/TodoList.tsx, rendered by the  *)
(* Home page with the todos and the hideCompleted of the hooks).           *)
(***************************************************************************)
\* A.filter((todo) => !todo.completed)
RECURSIVE filterNotCompleted(_)
filterNotCompleted(todos) ==
  IF todos = <<>> THEN <<>>
  ELSE IF ~Head(todos).completed
       THEN <<Head(todos)>> \o filterNotCompleted(Tail(todos))
       ELSE filterNotCompleted(Tail(todos))

\* filteredTodos with a mutated body: the filter is never applied.
filteredTodosUnfiltered(todos, hide) == todos

\* filteredTodos of TodoList
filteredTodos(todos, hide) ==
  IF hide THEN filterNotCompleted(todos) ELSE todos

\* The tasks TodoList shows for the parameters p and the cache c: those of
\* the entry of the selected user, filtered.
visibleTodos(p, c) ==
  LET sel == selectedUserId(p)
  IN IF sel.tag = "Some" /\ sel.value \in CacheKeys
     THEN filteredTodos(todosExposed(c, sel.value), hideCompleted(p))
     ELSE <<>>

(***************************************************************************)
(* State.                                                                  *)
(***************************************************************************)
VARIABLES
  searchParams,   \* the parameters of the address (useSearchParams)
  lastOp,         \* the selection operation executed last, with its argument
  prevParams,     \* the parameters before that operation
  logical,        \* the selection state the operations have established
  fetched,        \* the reader run last: its request, response and result
  call,           \* the client call in progress: its attempts and result
  hookUser,       \* the userId the useTodos hook was rendered with last
  cache,          \* the query cache: the entry of each ['todos', userId] key
  mutations,      \* the mutations started by toggleTodo, in order of creation
  toast,          \* the toast state of the useTodos hook
  observed,       \* per mutation: the cache around its optimistic step and
                  \* around its settling
  toastUi,        \* the Toast component showing a notice: its state, its
                  \* timers and the calls of onClose
  queries,        \* the state of the query of each key: data, fetch, observers
  queryUser,      \* the user the task query observes (0: none selected)
  queryNow,       \* the time, in ms since the page was opened
  lastAccess,     \* the read access of the last step and what it started
  retrying,       \* the run of fetchTodosByUserIdWithRetry: its rounds
  attemptsMade    \* the HTTP requests sent for the task query

vars ==
  <<searchParams, lastOp, prevParams, logical, fetched, call, hookUser, cache,
    mutations, toast, observed, toastUi, queries, queryUser, queryNow,
    lastAccess, retrying, attemptsMade>>

selectionVars == <<searchParams, lastOp, prevParams, logical>>

fetchVars == <<fetched>>

clientVars == <<call>>

mutationVars == <<hookUser, cache, mutations, toast, observed>>

toastVars == <<toastUi>>

queryVars == <<queries, queryUser, queryNow, lastAccess>>

retryingVars == <<retrying>>

loadVars == <<attemptsMade>>

\* What the operations of one part leave unchanged: the other parts.
outsideSelection ==
  <<fetchVars, clientVars, mutationVars, toastVars,
    queryVars, retryingVars, loadVars>>

outsideFetch ==
  <<selectionVars, clientVars, mutationVars, toastVars,
    queryVars, retryingVars, loadVars>>

outsideClient ==
  <<selectionVars, fetchVars, mutationVars, toastVars,
    queryVars, retryingVars, loadVars>>

outsideMutation ==
  <<selectionVars, fetchVars, clientVars, toastVars,
    queryVars, retryingVars, loadVars>>

outsideToast ==
  <<selectionVars, fetchVars, clientVars, mutationVars,
    queryVars, retryingVars, loadVars>>

outsideQuery ==
  <<selectionVars, fetchVars, clientVars, mutationVars,
    toastVars, retryingVars, loadVars>>

\* fetchTodosByUserIdWithRetry has not been called.
NoRetrying ==
  [status |-> "idle", maxRetries |-> 0, rounds |-> 0, requests |-> 0,
   retryWaits |-> <<>>, result |-> Left("none")]

\* No component reads a query.
NoQueries ==
  /\ queries = [key \in QueryKeys |-> NoQuery]
  /\ queryUser = 0
  /\ queryNow = 0
  /\ lastAccess = NoAccess

(***************************************************************************)
(* Input sets.                                                             *)
(***************************************************************************)
UserIds == 1..MaxUserId

\* Texts a visitor may put in the userId parameter of the address.
UserIdTexts ==
  { <<"3">>, <<"1", "0">>, <<"0">>, <<"-", "1">>, <<"a", "b", "c">>,
    <<"3", "a", "b", "c">>, <<"3", ".", "5">>, <<>>, <<" ", "7">>,
    <<"0", "0", "7">> }

\* Texts a visitor may put in the hideCompleted parameter of the address.
HideCompletedTexts ==
  { TrueText, <<"f", "a", "l", "s", "e">>, <<"T", "R", "U", "E">>, <<"1">>,
    <<>> }

\* Texts of a parameter the selection hook does not own.
OtherTexts == { <<"x">> }

\* Every address the page can be opened with.
InitialParams ==
  { p \in UNION { [d -> UserIdTexts \cup HideCompletedTexts \cup OtherTexts] :
                    d \in SUBSET {"userId", "hideCompleted", "tab"} } :
      /\ ParamsHas(p, "userId") => p["userId"] \in UserIdTexts
      /\ ParamsHas(p, "hideCompleted") => p["hideCompleted"] \in HideCompletedTexts
      /\ ParamsHas(p, "tab") => p["tab"] \in OtherTexts }

\* The selection state read from the parameters by the hook.
SelectionState(p) ==
  [selectedUser |-> selectedUserId(p), hideCompleted |-> hideCompleted(p)]

NoOp == [op |-> "load", userId |-> 0, value |-> FALSE]

Idle == [kind |-> "none", userId |-> 0, status |-> "idle",
         response |-> Left("none"), result |-> Left("none")]

\* No client call has been made.
NoCall == [kind |-> "none", status |-> "idle", retries |-> 0, delay |-> 0,
           attempts |-> 0, log |-> <<>>, outcomes |-> <<>>, waits |-> <<>>,
           result |-> Left("none")]

\* No page shows a task list: nothing cached, no mutation started.
NoMutations ==
  /\ hookUser = 1
  /\ cache = [u \in EntryKeys |-> NoEntry]
  /\ mutations = <<>>
  /\ toast = [type |-> "none", message |-> <<>>]
  /\ observed = <<>>

(***************************************************************************)
(* Selection operations: each is one setSearchParams call.                 *)
(***************************************************************************)
selectUser(userId) ==
  /\ searchParams' = selectUserUpdate(searchParams, userId)
  /\ lastOp' = [op |-> "selectUser", userId |-> userId, value |-> FALSE]
  /\ prevParams' = searchParams
  /\ logical' = [selectedUser |-> Some(userId), hideCompleted |-> FALSE]
  /\ UNCHANGED outsideSelection

clearSelection ==
  /\ searchParams' = clearSelectionUpdate(searchParams)
  /\ lastOp' = [op |-> "clearSelection", userId |-> 0, value |-> FALSE]
  /\ prevParams' = searchParams
  /\ logical' = [selectedUser |-> None, hideCompleted |-> FALSE]
  /\ UNCHANGED outsideSelection

toggleHideCompleted ==
  /\ searchParams' = toggleHideCompletedUpdate(searchParams)
  /\ lastOp' = [op |-> "toggleHideCompleted", userId |-> 0, value |-> FALSE]
  /\ prevParams' = searchParams
  /\ logical' = [logical EXCEPT !.hideCompleted = ~logical.hideCompleted]
  /\ UNCHANGED outsideSelection

setHideCompleted(value) ==
  /\ searchParams' = setHideCompletedUpdate(searchParams, value)
  /\ lastOp' = [op |-> "setHideCompleted", userId |-> 0, value |-> value]
  /\ prevParams' = searchParams
  /\ logical' = [logical EXCEPT !.hideCompleted = value]
  /\ UNCHANGED outsideSelection

SelectionInit ==
  /\ retrying = NoRetrying
  /\ attemptsMade = 0
  /\ searchParams \in InitialParams
  /\ lastOp = NoOp
  /\ prevParams = searchParams
  /\ logical = SelectionState(searchParams)
  /\ fetched = Idle
  /\ call = NoCall
  /\ NoMutations
  /\ toastUi = NoToastUi
  /\ NoQueries

SelectionNext ==
  \/ \E userId \in UserIds : selectUser(userId)
  \/ clearSelection
  \/ toggleHideCompleted
  \/ \E value \in BOOLEAN : setHideCompleted(value)

SelectionSpec == SelectionInit /\ [][SelectionNext]_vars

(***************************************************************************)
(* Reader runs: the server answers, the reader maps the answer.            *)
(***************************************************************************)
Names ==
  { <<"a">>, <<"A">>, <<"b">>, <<"B">>, <<"a", "b">>, <<"A", "a">>,
    <<"a", " ", "b">> }

UserPool == { [id |-> i, name |-> n] : i \in 1..2, n \in Names }

TodoPool ==
  { [id |-> i, userId |-> u, completed |-> c] :
      i \in 1..MaxTodoId, u \in 1..MaxOwner, c \in BOOLEAN }

SeqsUpTo(S, n) == UNION { [1..k -> S] : k \in 0..n }

FetchErrors == { "NetworkError", "NotFoundError" }

\* What fetchJson can resolve to for a collection drawn from pool.
Responses(pool) ==
  { Right(payload) : payload \in SeqsUpTo(pool, MaxPayload) }
    \cup { Left(e) : e \in FetchErrors }

\* fetchUsers() is run: the request is sent.
requestUsers ==
  /\ fetched.status = "idle"
  /\ fetched' = [fetched EXCEPT !.kind = "users", !.status = "loading"]
  /\ UNCHANGED outsideFetch

\* fetchTodosByUserId(userId) is run: the request is sent.
requestTodos(userId) ==
  /\ fetched.status = "idle"
  /\ fetched' = [fetched EXCEPT !.kind = "todos", !.userId = userId,
                                !.status = "loading"]
  /\ UNCHANGED outsideFetch

\* fetchJson resolves and fetchUsers maps its outcome.
settleUsers ==
  /\ fetched.status = "loading"
  /\ fetched.kind = "users"
  /\ \E response \in Responses(UserPool) :
       fetched' = [fetched EXCEPT !.status = "settled",
                                  !.response = response,
                                  !.result = fetchUsers(response)]
  /\ UNCHANGED outsideFetch

\* fetchJson resolves and fetchTodosByUserId maps its outcome.
settleTodos ==
  /\ fetched.status = "loading"
  /\ fetched.kind = "todos"
  /\ \E response \in Responses(TodoPool) :
       fetched' = [fetched EXCEPT !.status = "settled",
                                  !.response = response,
                                  !.result = fetchTodosByUserId(fetched.userId,
                                                                response)]
  /\ UNCHANGED outsideFetch

FetchInit ==
  /\ retrying = NoRetrying
  /\ attemptsMade = 0
  /\ searchParams = <<>>
  /\ lastOp = NoOp
  /\ prevParams = searchParams
  /\ logical = SelectionState(searchParams)
  /\ fetched = Idle
  /\ call = NoCall
  /\ NoMutations
  /\ toastUi = NoToastUi
  /\ NoQueries

FetchNext ==
  \/ requestUsers
  \/ \E userId \in 1..MaxOwner : requestTodos(userId)
  \/ settleUsers
  \/ settleTodos

FetchSpec == FetchInit /\ [][FetchNext]_vars

(***************************************************************************)
(* Client calls: withRetry as a state machine.  A call issues a request,   *)
(* the exchange ends, and the call either settles or sleeps for the delay  *)
(* and issues the next request.                                            *)
(***************************************************************************)
ClientCalls == {"listUsers", "listTasksForUser", "updateTask"}

\* api/users.ts does not race the fetch against a timeout.
ExchangesOf(kind) ==
  IF kind = "listUsers" THEN { x \in Exchanges : x.type # "timeout" }
  ELSE Exchanges

\* The TaskEither of a client call is run: the first request is sent.
startCall(kind) ==
  /\ call.status = "idle"
  /\ call' = [call EXCEPT !.kind = kind, !.status = "requesting",
                          !.retries = retriesOf(kind),
                          !.delay = DEFAULT_RETRY_DELAY, !.attempts = 1]
  /\ UNCHANGED outsideClient

\* The exchange of the request in flight ends; TE.orElse of withRetry
\* either schedules the next attempt or lets the outcome through.
attemptEnds ==
  /\ call.status = "requesting"
  /\ \E x \in ExchangesOf(call.kind) :
       LET e == attemptTask(call.kind, x)
       IN call' =
            IF e.tag = "Left" /\ shouldRetry(e.left, call.retries)
            THEN [call EXCEPT !.status = "sleeping",
                              !.log = Append(@, x),
                              !.outcomes = Append(@, e),
                              !.waits = Append(@, call.delay)]
            ELSE [call EXCEPT !.status = "settled",
                              !.log = Append(@, x),
                              !.outcomes = Append(@, e),
                              !.result = afterRetry(call.kind, e)]
  /\ UNCHANGED outsideClient

\* The setTimeout of withRetry fires: the task is run again with one retry
\* less and twice the delay.
retryTimerFires ==
  /\ call.status = "sleeping"
  /\ call' = [call EXCEPT !.status = "requesting",
                          !.retries = @ - 1,
                          !.delay = nextDelay(@),
                          !.attempts = @ + 1]
  /\ UNCHANGED outsideClient

ClientInit ==
  /\ retrying = NoRetrying
  /\ attemptsMade = 0
  /\ searchParams = <<>>
  /\ lastOp = NoOp
  /\ prevParams = searchParams
  /\ logical = SelectionState(searchParams)
  /\ fetched = Idle
  /\ call = NoCall
  /\ NoMutations
  /\ toastUi = NoToastUi
  /\ NoQueries

ClientNext ==
  \/ \E kind \in ClientCalls : startCall(kind)
  \/ attemptEnds
  \/ retryTimerFires

ClientSpec == ClientInit /\ [][ClientNext]_vars

(***************************************************************************)
(* Helpers of the properties.                                              *)
(***************************************************************************)
Count(s, x) == Cardinality({ i \in DOMAIN s : s[i] = x })

AllDigits(s) == s # <<>> /\ \A i \in DOMAIN s : s[i] \in DigitChars

\* s is the decimal representation of the positive integer n (leading
\* white space and leading zeros tolerated).
IsPositiveIntegerText(s, n) ==
  LET t == SkipWhiteSpace(s)
  IN AllDigits(t) /\ DigitsValue(t) = n /\ n > 0

SelectedBefore == selectedUserId(prevParams)

SelectedNow == selectedUserId(searchParams)

HideBefore == hideCompleted(prevParams)

HideNow == hideCompleted(searchParams)

(***************************************************************************)
(* Properties of the selection state.                                      *)
(***************************************************************************)
\* C1: after selectUser(u), from every prior state, the selected user read
\* from the parameters is u and hideCompleted is false; in particular after
\* select(u1), setHideCompleted(true), select(u2) with u2 # u1.
C1_SelectSetsUserAndResetsFilter ==
  lastOp.op = "selectUser" =>
    /\ SelectedNow = Some(lastOp.userId)
    /\ HideNow = FALSE

\* C1 witness: a different user was selected with the filter on, then
\* selectUser ran.
C1_Witness ==
  /\ lastOp.op = "selectUser"
  /\ SelectedBefore.tag = "Some"
  /\ SelectedBefore # Some(lastOp.userId)
  /\ HideBefore
  /\ SelectedNow = Some(lastOp.userId)
  /\ ~HideNow

\* C2: every step of the persisted store that changes the selected user to
\* some user ends with hideCompleted false: the new user is never observable
\* together with the filter that was on before.
C2_SelectIsOneTransition ==
  [][ (selectedUserId(searchParams') # selectedUserId(searchParams)
        /\ selectedUserId(searchParams').tag = "Some")
      => /\ ~hideCompleted(searchParams')
         /\ ~ParamsHas(searchParams', "hideCompleted") ]_vars

\* C2 witness: the filter was on, one step later a new user is selected
\* and the hideCompleted parameter is gone.
C2_Witness ==
  /\ lastOp.op = "selectUser"
  /\ HideBefore
  /\ SelectedBefore # SelectedNow
  /\ SelectedNow.tag = "Some"
  /\ ~ParamsHas(searchParams, "hideCompleted")

\* C3 (as stated): selectUser(u) when u is already selected does not alter
\* hideCompleted.
C3_Original ==
  (lastOp.op = "selectUser" /\ SelectedBefore = Some(lastOp.userId))
    => HideNow = HideBefore

\* C3 (amended): selectUser(u) when u is already selected keeps u selected
\* and leaves hideCompleted false, whatever it was before the call.
C3_ReselectResetsFilter ==
  (lastOp.op = "selectUser" /\ SelectedBefore = Some(lastOp.userId))
    => /\ SelectedNow = SelectedBefore
       /\ HideNow = FALSE

\* C3 witness: the selected user was selected again while the filter was on.
C3_Witness ==
  /\ lastOp.op = "selectUser"
  /\ SelectedBefore = Some(lastOp.userId)
  /\ HideBefore
  /\ ~HideNow

\* C4: toggleHideCompleted and setHideCompleted never change the selected
\* user (nor the text of its parameter).
C4_FilterOpsKeepSelection ==
  lastOp.op \in {"toggleHideCompleted", "setHideCompleted"} =>
    /\ SelectedNow = SelectedBefore
    /\ ParamsHas(searchParams, "userId") = ParamsHas(prevParams, "userId")
    /\ ParamsHas(searchParams, "userId") =>
         searchParams["userId"] = prevParams["userId"]

\* C4 witness: a filter operation changed the filter while a user was
\* selected.
C4_Witness ==
  /\ lastOp.op \in {"toggleHideCompleted", "setHideCompleted"}
  /\ SelectedBefore.tag = "Some"
  /\ HideNow # HideBefore
  /\ SelectedNow = SelectedBefore

\* C5: after clearSelection, from every prior state, no user is selected
\* and hideCompleted is false.
C5_ClearResetsBoth ==
  lastOp.op = "clearSelection" =>
    /\ SelectedNow = None
    /\ HideNow = FALSE

\* C5 witness: clearSelection ran with a user selected and the filter on.
C5_Witness ==
  /\ lastOp.op = "clearSelection"
  /\ SelectedBefore.tag = "Some"
  /\ HideBefore
  /\ SelectedNow = None
  /\ ~HideNow

\* C6: the selection state established by the operations is the state read
\* back from the parameters alone, as after a reload of the same address.
C6_RoundTrip == SelectionState(searchParams) = logical

\* C6 witness: a two-digit user is selected with the filter on, and read
\* back.
C6_Witness ==
  /\ lastOp.op = "setHideCompleted"
  /\ logical = [selectedUser |-> Some(10), hideCompleted |-> TRUE]
  /\ searchParams["userId"] = <<"1", "0">>
  /\ SelectionState(searchParams) = logical

\* C7 (as stated): the selected user read from the userId parameter is
\* some(n) only when the text is the representation of the positive
\* integer n; every other text, such as "3abc", reads as none.
C7_OnlyIntegerTextSelects ==
  (ParamsHas(searchParams, "userId") /\ SelectedNow.tag = "Some")
    => IsPositiveIntegerText(searchParams["userId"], SelectedNow.value)

\* C8: hideCompleted is true exactly when the hideCompleted parameter is
\* the text "true"; absent or any other text reads as false.
C8_HideCompletedOnlyTrueText ==
  /\ ~ParamsHas(searchParams, "hideCompleted") => HideNow = FALSE
  /\ ParamsHas(searchParams, "hideCompleted") =>
       (HideNow <=> searchParams["hideCompleted"] = <<"t", "r", "u", "e">>)
  /\ logical.hideCompleted = HideNow

\* C8 witness: the parameter is present with a text other than "true" and
\* the filter reads as off.
C8_Witness ==
  /\ ParamsHas(searchParams, "hideCompleted")
  /\ searchParams["hideCompleted"] = <<"T", "R", "U", "E">>
  /\ ~HideNow

(***************************************************************************)
(* Properties of the readers.                                              *)
(***************************************************************************)
\* C9: a successful fetchTodosByUserId(u) returns exactly the tasks of the
\* payload whose userId is u, each as often as the payload has it, ordered
\* by id ascending.
C9_TodosFilteredAndSorted ==
  (fetched.kind = "todos" /\ fetched.status = "settled"
    /\ fetched.response.tag = "Right") =>
    /\ fetched.result.tag = "Right"
    /\ LET r == fetched.result.right
           p == fetched.response.right
       IN /\ \A i \in DOMAIN r : r[i].userId = fetched.userId
          /\ \A t \in TodoPool :
               Count(r, t) = IF t.userId = fetched.userId THEN Count(p, t) ELSE 0
          /\ \A i, j \in DOMAIN r : i < j => r[i].id <= r[j].id

\* C9 witness: the payload holds a task of another user and tasks of the
\* requested user in descending id order; the result holds the latter in
\* ascending order.
C9_Witness ==
  /\ fetched.kind = "todos"
  /\ fetched.status = "settled"
  /\ fetched.response.tag = "Right"
  /\ LET p == fetched.response.right
         r == fetched.result.right
     IN /\ Len(p) = 3
        /\ \E i \in DOMAIN p : p[i].userId # fetched.userId
        /\ \E i, j \in DOMAIN p :
             /\ i < j
             /\ p[i].userId = fetched.userId
             /\ p[j].userId = fetched.userId
             /\ p[i].id > p[j].id
        /\ Len(r) = 2
        /\ r[1].id < r[2].id

InitialCaches ==
  { [u \in EntryKeys |->
       IF u = 1
       THEN [has |-> TRUE, invalidated |-> FALSE,
             data |-> << [id |-> 1, userId |-> 1, completed |-> FALSE],
                         [id |-> 2, userId |-> 1, completed |-> TRUE] >>]
       ELSE IF u = NullKey THEN NoEntry
       ELSE e2] :
      e2 \in { NoEntry,
               [has |-> TRUE, invalidated |-> FALSE,
                data |-> << [id |-> 3, userId |-> 2, completed |-> FALSE] >>] } }

NoToast == [type |-> "none", message |-> <<>>]

\* toggleTodo(todo) for a task of the list displayed: the candidate is the
\* task with completed inverted; mutateAsync runs onMutate and sends the
\* PUT.
toggleTodo(i) ==
  /\ Len(mutations) < MaxMutations
  /\ hookUser \in CacheKeys
  /\ cache[hookUser].has
  /\ i \in DOMAIN cache[hookUser].data
  /\ LET todo == cache[hookUser].data[i]
         updatedTodo == toggleCompleted(todo)
         m == onMutate(cache, hookUser, updatedTodo)
     IN /\ cache' = m.cache
        /\ mutations' = Append(mutations,
             [status |-> "pending", variables |-> updatedTodo,
              context |-> m.context, mutateUser |-> hookUser,
              closureUser |-> hookUser, data |-> NoTodo, error |-> "none"])
        /\ observed' = Append(observed,
             [listBefore |-> cache[hookUser], afterMutate |-> m.cache,
              settleUser |-> 0,
              beforeSettle |-> cache, afterSettle |-> cache,
              notices |-> <<>>])
  /\ UNCHANGED <<hookUser, toast>>
  /\ UNCHANGED outsideMutation

\* The task a caller of the hook holds while no list is cached.
HeldTodo(u) == [id |-> 3, userId |-> u, completed |-> FALSE]

\* toggleTodo(todo) called while the entry of the selected user holds no
\* list: mutateAsync runs onMutate and sends the PUT all the same.
toggleTodoNoList ==
  /\ Len(mutations) < MaxMutations
  /\ hookUser \in CacheKeys
  /\ ~cache[hookUser].has
  /\ LET updatedTodo == toggleCompleted(HeldTodo(hookUser))
         m == onMutate(cache, hookUser, updatedTodo)
     IN /\ cache' = m.cache
        /\ mutations' = Append(mutations,
             [status |-> "pending", variables |-> updatedTodo,
              context |-> m.context, mutateUser |-> hookUser,
              closureUser |-> hookUser, data |-> NoTodo, error |-> "none"])
        /\ observed' = Append(observed,
             [listBefore |-> cache[hookUser], afterMutate |-> m.cache,
              settleUser |-> 0,
              beforeSettle |-> cache, afterSettle |-> cache,
              notices |-> <<>>])
  /\ UNCHANGED <<hookUser, toast>>
  /\ UNCHANGED outsideMutation

\* The PUT of mutation k resolves with an echoed task: onSuccess, then
\* onSettled.
putSucceeds(k) ==
  /\ k \in DOMAIN mutations
  /\ mutations[k].status = "pending"
  /\ \E data \in Echoes(mutations[k].variables) :
       LET userIdValue == mutations[k].closureUser
           after == onSettled(onSuccess(cache, userIdValue, data), userIdValue)
       IN /\ cache' = after
          /\ mutations' = [mutations EXCEPT ![k].status = "success",
                                            ![k].data = data]
          /\ observed' = [observed EXCEPT ![k].settleUser = userIdValue,
                                          ![k].beforeSettle = cache,
                                          ![k].afterSettle = after,
                                          ![k].notices = Append(@, infoToast)]
  /\ toast' = infoToast
  /\ UNCHANGED hookUser
  /\ UNCHANGED outsideMutation

\* The PUT of mutation k fails: onError, then onSettled.
putFails(k) ==
  /\ k \in DOMAIN mutations
  /\ mutations[k].status = "pending"
  /\ \E error \in UpdateErrors :
       LET userIdValue == mutations[k].closureUser
           after == onSettled(onError(cache, userIdValue, mutations[k].context,
                                      mutations[k].variables),
                              userIdValue)
       IN /\ cache' = after
          /\ mutations' = [mutations EXCEPT ![k].status = "error",
                                            ![k].error = error.tag]
          /\ observed' = [observed EXCEPT ![k].settleUser = userIdValue,
                                          ![k].beforeSettle = cache,
                                          ![k].afterSettle = after,
                                          ![k].notices =
                                             Append(@, errorToast(error))]
          /\ toast' = errorToast(error)
  /\ UNCHANGED hookUser
  /\ UNCHANGED outsideMutation

\* The selection changes to user u, or to no user (u = NullKey: the userId
\* parameter leaves the address): the hook renders with the new userId,
\* and the mutation started last, if pending, gets the callbacks of that
\* render.
switchUser(u) ==
  /\ u \in EntryKeys
  /\ u # hookUser
  /\ hookUser' = u
  /\ mutations' =
       [k \in DOMAIN mutations |->
          IF k = Len(mutations) /\ mutations[k].status = "pending"
          THEN [mutations[k] EXCEPT !.closureUser = u]
          ELSE mutations[k]]
  /\ UNCHANGED <<cache, toast, observed>>
  /\ UNCHANGED outsideMutation

MutationInit ==
  /\ retrying = NoRetrying
  /\ attemptsMade = 0
  /\ searchParams = <<>>
  /\ lastOp = NoOp
  /\ prevParams = searchParams
  /\ logical = SelectionState(searchParams)
  /\ fetched = Idle
  /\ call = NoCall
  /\ hookUser = 1
  /\ cache \in InitialCaches
  /\ mutations = <<>>
  /\ toast = NoToast
  /\ observed = <<>>
  /\ toastUi = NoToastUi
  /\ NoQueries

MutationNext ==
  \/ \E i \in 1..2 : toggleTodo(i)
  \/ toggleTodoNoList
  \/ \E k \in 1..MaxMutations : putSucceeds(k)
  \/ \E k \in 1..MaxMutations : putFails(k)
  \/ \E u \in CacheKeys : switchUser(u)

MutationSpec == MutationInit /\ [][MutationNext]_vars

(***************************************************************************)
(* The optimistic update when the selection is cleared: the userId         *)
(* parameter leaves the address (the visitor goes back, or edits the       *)
(* address) while toggles of the list of user 1 are pending, and user 1    *)
(* may be selected again.                                                  *)
(***************************************************************************)
DeselectKeys == {NullKey, 1}

DeselectNext ==
  \/ \E i \in 1..2 : toggleTodo(i)
  \/ \E k \in 1..MaxMutations : putSucceeds(k)
  \/ \E k \in 1..MaxMutations : putFails(k)
  \/ \E u \in DeselectKeys : switchUser(u)

DeselectSpec == MutationInit /\ [][DeselectNext]_vars

(***************************************************************************)
(* The Toast component as a state machine: one notice, from the moment it  *)
(* is shown.                                                               *)
(***************************************************************************)
\* The instants at which the user or the parent can act.
Instants == {100, 1000, 3000, 3100, 3300, 3400}

\* Time passes, up to the next pending timer.
timePasses ==
  /\ \E at \in Instants \cup PendingDues(toastUi) :
       /\ at > toastUi.now
       /\ \A d \in PendingDues(toastUi) : at <= d
       /\ toastUi' = [toastUi EXCEPT !.now = at]
  /\ UNCHANGED outsideToast

\* hideTimer fires: setIsVisible(false)
hideTimerFires ==
  /\ toastUi.hideTimer.set
  /\ MayFire(toastUi, toastUi.hideTimer.due)
  /\ toastUi' = [toastUi EXCEPT !.isVisible = FALSE, !.hideTimer = NoTimer]
  /\ UNCHANGED outsideToast

\* closeTimer fires: onClose()
closeTimerFires ==
  /\ toastUi.closeTimer.set
  /\ MayFire(toastUi, toastUi.closeTimer.due)
  /\ toastUi' = onClose([toastUi EXCEPT !.closeTimer = NoTimer])
  /\ UNCHANGED outsideToast

\* The close button is clicked: setIsVisible(false); setTimeout(onClose, 300)
clickClose ==
  /\ toastUi.mounted
  /\ toastUi.clicks < MaxClicks
  /\ toastUi' = [toastUi EXCEPT !.isVisible = FALSE,
                                !.clicks = @ + 1,
                                !.manualTimers =
                                   Append(@, toastUi.now + HIDE_ANIMATION)]
  /\ UNCHANGED outsideToast

\* The timer set by a click fires: onClose()
manualTimerFires(i) ==
  /\ i \in DOMAIN toastUi.manualTimers
  /\ MayFire(toastUi, toastUi.manualTimers[i])
  /\ toastUi' = onClose([toastUi EXCEPT !.manualTimers = RemoveAt(@, i)])
  /\ UNCHANGED outsideToast

\* Home renders again while the notice is shown: clearToast is a new
\* function, so the effect is cleaned up and run again.
parentRenders ==
  /\ toastUi.mounted
  /\ toastUi.renders < MaxRenders
  /\ toastUi' = toastEffect(toastCleanup([toastUi EXCEPT !.renders = @ + 1]))
  /\ UNCHANGED outsideToast

ToastInit ==
  /\ retrying = NoRetrying
  /\ attemptsMade = 0
  /\ searchParams = <<>>
  /\ lastOp = NoOp
  /\ prevParams = searchParams
  /\ logical = SelectionState(searchParams)
  /\ fetched = Idle
  /\ call = NoCall
  /\ NoMutations
  /\ toastUi = toastEffect([NoToastUi EXCEPT !.mounted = TRUE,
                                            !.isVisible = TRUE])
  /\ NoQueries

ToastNext ==
  \/ timePasses
  \/ hideTimerFires
  \/ closeTimerFires
  \/ clickClose
  \/ \E i \in 1..MaxClicks : manualTimerFires(i)
  \/ parentRenders

ToastSpec == ToastInit /\ [][ToastNext]_vars

(***************************************************************************)
(* The same notice with the steps the browser takes by itself taken        *)
(* whenever they stay possible: time passes and a timer that is due        *)
(* fires.  Clicks and renders of the parent happen or not.                 *)
(***************************************************************************)
ToastFairness ==
  /\ WF_vars(timePasses)
  /\ WF_vars(hideTimerFires)
  /\ WF_vars(closeTimerFires)
  /\ \A i \in 1..MaxClicks : WF_vars(manualTimerFires(i))

ToastLiveSpec == ToastInit /\ [][ToastNext]_vars /\ ToastFairness

(***************************************************************************)
(* The queries as a state machine.  The page is opened with no user        *)
(* selected: the UserList of the page reads ['users'].  A second UserList  *)
(* is mounted while the mobile menu is open.  The task query reads         *)
(* ['todos', userId] of the selected user.  The times are chosen below     *)
(* gcTime, so no query is collected.                                       *)
(***************************************************************************)
QueryInstants == {STALE_TIME - 1, STALE_TIME, STALE_TIME + 1}

\* The most runs of queryFn a query was cancelled on that go on together.
MaxAbandoned == 1

\* The menu is opened: its UserList starts to read ['users'].
openMenu ==
  /\ queries[<<"users">>].observers = 1
  /\ LET q == queries[<<"users">>]
         q2 == observeQuery(q, queryNow)
     IN /\ queries' = [queries EXCEPT ![<<"users">>] = q2]
        /\ lastAccess' = Access(<<"users">>, q, q2, queryNow)
  /\ UNCHANGED <<queryUser, queryNow>>
  /\ UNCHANGED outsideQuery

\* The menu is closed: its UserList is unmounted.
closeMenu ==
  /\ queries[<<"users">>].observers = 2
  /\ queries' = [queries EXCEPT ![<<"users">>] = unobserveQuery(@)]
  /\ lastAccess' = NoAccess
  /\ UNCHANGED <<queryUser, queryNow>>
  /\ UNCHANGED outsideQuery

\* The selection changes to user u: useTodos renders with the key
\* ['todos', u]; the query of the user selected before is no longer read.
selectUserQuery(u) ==
  /\ u \in QueryUsers
  /\ u # queryUser
  /\ LET q == queries[<<"todos", u>>]
         q2 == observeQuery(q, queryNow)
     IN /\ queries' =
             [key \in QueryKeys |->
                IF key = <<"todos", u>> THEN q2
                ELSE IF queryUser # 0 /\ key = <<"todos", queryUser>>
                THEN unobserveQuery(queries[key])
                ELSE queries[key]]
        /\ lastAccess' = Access(<<"todos", u>>, q, q2, queryNow)
  /\ queryUser' = u
  /\ UNCHANGED queryNow
  /\ UNCHANGED outsideQuery

\* The selection is cleared: the task query is disabled.
clearUserQuery ==
  /\ queryUser # 0
  /\ queries' = [queries EXCEPT ![<<"todos", queryUser>>] = unobserveQuery(@)]
  /\ queryUser' = 0
  /\ lastAccess' = NoAccess
  /\ UNCHANGED queryNow
  /\ UNCHANGED outsideQuery

\* The run of queryFn of a query resolves: the data is cached.
queryFnResolves(key) ==
  /\ queries[key].inFlight > 0
  /\ queries' = [queries EXCEPT ![key] =
       [@ EXCEPT !.hasData = TRUE, !.dataUpdatedAt = queryNow,
                 !.invalidated = FALSE, !.fetching = @ /\ queries[key].inFlight > 1,
                 !.inFlight = @ - 1, !.failureCount = 0, !.isError = FALSE]]
  /\ lastAccess' = NoAccess
  /\ UNCHANGED <<queryUser, queryNow>>
  /\ UNCHANGED outsideQuery

\* The run of queryFn of a query rejects: the query retries once (retry:
\* 1) if a component still reads it, else it is in error.
queryFnRejects(key) ==
  /\ queries[key].inFlight > 0
  /\ queries' = [queries EXCEPT ![key] =
       IF queries[key].inFlight > 1
       THEN [@ EXCEPT !.inFlight = @ - 1]
       ELSE afterRejection(@)]
  /\ lastAccess' = NoAccess
  /\ UNCHANGED <<queryUser, queryNow>>
  /\ UNCHANGED outsideQuery

\* A run of queryFn the query was cancelled on ends: its result is dropped.
abandonedRunEnds(key) ==
  /\ queries[key].abandoned > 0
  /\ queries' = [queries EXCEPT ![key] = [@ EXCEPT !.abandoned = @ - 1]]
  /\ lastAccess' = NoAccess
  /\ UNCHANGED <<queryUser, queryNow>>
  /\ UNCHANGED outsideQuery

\* The delay of the retry is over: queryFn is run again if a component
\* still reads the query, else the query is in error.
queryRetryFires(key) ==
  /\ queries[key].retryWait
  /\ queries' = [queries EXCEPT ![key] =
       IF queries[key].observers > 0
       THEN [@ EXCEPT !.retryWait = FALSE, !.inFlight = @ + 1]
       ELSE [@ EXCEPT !.retryWait = FALSE, !.fetching = FALSE,
                      !.failureCount = @ + 1, !.isError = TRUE]]
  /\ lastAccess' = NoAccess
  /\ UNCHANGED <<queryUser, queryNow>>
  /\ UNCHANGED outsideQuery

\* A toggle of a task of the list displayed starts: onMutate cancels the
\* fetch of the key.
cancelQueries ==
  /\ queryUser # 0
  /\ queries[<<"todos", queryUser>>].hasData
  /\ queries[<<"todos", queryUser>>].fetching
  /\ runsOf(queries[<<"todos", queryUser>>]) <= MaxAbandoned
  /\ queries' = [queries EXCEPT ![<<"todos", queryUser>>] = cancelFetch(@)]
  /\ lastAccess' = NoAccess
  /\ UNCHANGED <<queryUser, queryNow>>
  /\ UNCHANGED outsideQuery

\* The write of a toggle settles: onSettled invalidates the key of the
\* selected user, whose query is read and so fetches again; a fetch going
\* on for data already cached is cancelled first.
invalidateSelected ==
  /\ queryUser # 0
  /\ queries[<<"todos", queryUser>>].hasData
  /\ runsOf(queries[<<"todos", queryUser>>]) <= MaxAbandoned
  /\ queries' = [queries EXCEPT ![<<"todos", queryUser>>] =
       startFetch(cancelFetch([@ EXCEPT !.invalidated = TRUE]))]
  /\ lastAccess' = NoAccess
  /\ UNCHANGED <<queryUser, queryNow>>
  /\ UNCHANGED outsideQuery

\* Time passes.
queryTimePasses ==
  /\ \E at \in QueryInstants :
       /\ at > queryNow
       /\ queryNow' = at
  /\ lastAccess' = NoAccess
  /\ UNCHANGED <<queries, queryUser>>
  /\ UNCHANGED outsideQuery

QueryInit ==
  /\ retrying = NoRetrying
  /\ attemptsMade = 0
  /\ searchParams = <<>>
  /\ lastOp = NoOp
  /\ prevParams = searchParams
  /\ logical = SelectionState(searchParams)
  /\ fetched = Idle
  /\ call = NoCall
  /\ NoMutations
  /\ toastUi = NoToastUi
  /\ queries = [key \in QueryKeys |->
                  IF key = <<"users">>
                  THEN observeQuery(NoQuery, 0) ELSE NoQuery]
  /\ queryUser = 0
  /\ queryNow = 0
  /\ lastAccess = Access(<<"users">>, NoQuery, observeQuery(NoQuery, 0), 0)

QueryNext ==
  \/ openMenu
  \/ closeMenu
  \/ \E u \in QueryUsers : selectUserQuery(u)
  \/ clearUserQuery
  \/ \E key \in QueryKeys : queryFnResolves(key)
  \/ \E key \in QueryKeys : queryFnRejects(key)
  \/ \E key \in QueryKeys : queryRetryFires(key)
  \/ \E key \in QueryKeys : abandonedRunEnds(key)
  \/ cancelQueries
  \/ invalidateSelected
  \/ queryTimePasses

QuerySpec == QueryInit /\ [][QueryNext]_vars

(***************************************************************************)
(* The list shown as a state machine: the page is opened with an empty     *)
(* cache, the selection operations change the address, and the fetch of    *)
(* the selected user's tasks fills the entry of that user.                 *)
(***************************************************************************)
\* The lists the server returns for a user.
ViewLists(u) ==
  IF u = 1
  THEN { << [id |-> 1, userId |-> 1, completed |-> FALSE],
            [id |-> 2, userId |-> 1, completed |-> TRUE] >> }
  ELSE { << [id |-> 3, userId |-> u, completed |-> TRUE],
            [id |-> 4, userId |-> u, completed |-> FALSE] >>,
         << [id |-> 3, userId |-> u, completed |-> TRUE] >> }

\* The fetch of the tasks of the selected user resolves: the list is
\* cached under the key of that user.
todosArrive ==
  /\ SelectionState(searchParams).selectedUser.tag = "Some"
  /\ LET u == SelectionState(searchParams).selectedUser.value
     IN /\ u \in CacheKeys
        /\ ~cache[u].has
        /\ \E list \in ViewLists(u) : cache' = setQueryData(cache, u, list)
  /\ UNCHANGED <<hookUser, mutations, toast, observed>>
  /\ UNCHANGED outsideMutation

ViewNext ==
  \/ \E userId \in UserIds : selectUser(userId)
  \/ clearSelection
  \/ toggleHideCompleted
  \/ \E value \in BOOLEAN : setHideCompleted(value)
  \/ todosArrive

ViewSpec == SelectionInit /\ [][ViewNext]_vars

(***************************************************************************)
(* fetchTodosByUserIdWithRetry as a state machine: it runs                 *)
(* fetchTodosByUserId, which is the client call listTasksForUser with the  *)
(* retries of withRetry, and its TE.orElse runs it again.                  *)
(***************************************************************************)
\* fetchTodosByUserIdWithRetry(userId) is run: fetchTodosByUserId sends
\* its first request.
startWithRetry ==
  /\ retrying.status = "idle"
  /\ call.status = "idle"
  /\ retrying' = [retrying EXCEPT !.status = "running",
                                  !.maxRetries = DEFAULT_MAX_RETRIES,
                                  !.rounds = 1]
  /\ call' = [call EXCEPT !.kind = "listTasksForUser",
                          !.status = "requesting",
                          !.retries = retriesOf("listTasksForUser"),
                          !.delay = DEFAULT_RETRY_DELAY, !.attempts = 1]
  /\ UNCHANGED <<selectionVars, fetchVars, mutationVars, toastVars,
                 queryVars, loadVars>>

\* fetchTodosByUserId has ended: TE.orElse runs it again at once, with
\* maxRetries - 1, after a NetworkError, and lets every other outcome
\* through.
orElseWithRetry ==
  /\ retrying.status = "running"
  /\ call.status = "settled"
  /\ IF call.result.tag = "Left"
        /\ shouldRetry(call.result.left, retrying.maxRetries)
     THEN /\ retrying' = [retrying EXCEPT !.maxRetries = @ - 1,
                                         !.rounds = @ + 1,
                                         !.requests = @ + call.attempts,
                                         !.retryWaits = Append(@, 0)]
          /\ call' = [NoCall EXCEPT !.kind = "listTasksForUser",
                                    !.status = "requesting",
                                    !.retries = retriesOf("listTasksForUser"),
                                    !.delay = DEFAULT_RETRY_DELAY,
                                    !.attempts = 1]
     ELSE /\ retrying' = [retrying EXCEPT !.status = "settled",
                                         !.requests = @ + call.attempts,
                                         !.result = call.result]
          /\ UNCHANGED call
  /\ UNCHANGED <<selectionVars, fetchVars, mutationVars, toastVars,
                 queryVars, loadVars>>

RetryNext ==
  \/ startWithRetry
  \/ attemptEnds
  \/ retryTimerFires
  \/ orElseWithRetry

RetrySpec == ClientInit /\ [][RetryNext]_vars

(***************************************************************************)
(* The load of the selected user's tasks while the network is down: the    *)
(* task query of QuerySpec, whose queryFn is the client call               *)
(* listTasksForUser of ClientSpec, with every exchange ending in a         *)
(* NetworkError.  The user stays selected.  Each step is one that the      *)
(* browser takes by itself (a request ends, at the latest by its timeout;  *)
(* a timer fires; a promise continuation runs), so each is taken if it     *)
(* stays possible.                                                         *)
(***************************************************************************)
\* The most HTTP requests followed.
MaxHttpAttempts == 12

\* The exchanges that end an attempt of a task read with a NetworkError.
NetworkDown ==
  { x \in ExchangesOf("listTasksForUser") :
      attemptTask("listTasksForUser", x) = Left(networkError) }

\* The key of the task query of the user followed.
TaskKey == <<"todos", 1>>

\* The user is selected: the task query starts to fetch.
selectForLoad ==
  /\ queryUser = 0
  /\ selectUserQuery(1)

\* queryFn of the task query is called: fetchTodosByUserId sends its first
\* request.
queryFnRuns ==
  /\ queries[TaskKey].inFlight = 1
  /\ call.status = "idle"
  /\ attemptsMade < MaxHttpAttempts
  /\ call' = [call EXCEPT !.kind = "listTasksForUser",
                          !.status = "requesting",
                          !.retries = retriesOf("listTasksForUser"),
                          !.delay = DEFAULT_RETRY_DELAY, !.attempts = 1]
  /\ attemptsMade' = attemptsMade + 1
  /\ UNCHANGED <<selectionVars, fetchVars, mutationVars, toastVars,
                 queryVars, retryingVars>>

\* attemptEnds with the network down.
attemptFails ==
  /\ call.status = "requesting"
  /\ \E x \in NetworkDown :
       LET e == attemptTask(call.kind, x)
       IN call' =
            IF e.tag = "Left" /\ shouldRetry(e.left, call.retries)
            THEN [call EXCEPT !.status = "sleeping",
                              !.log = Append(@, x),
                              !.outcomes = Append(@, e),
                              !.waits = Append(@, call.delay)]
            ELSE [call EXCEPT !.status = "settled",
                              !.log = Append(@, x),
                              !.outcomes = Append(@, e),
                              !.result = afterRetry(call.kind, e)]
  /\ UNCHANGED outsideClient

\* retryTimerFires, counted: the next request of the call is sent.
retrySends ==
  /\ call.status = "sleeping"
  /\ attemptsMade < MaxHttpAttempts
  /\ call' = [call EXCEPT !.status = "requesting",
                          !.retries = @ - 1,
                          !.delay = nextDelay(@),
                          !.attempts = @ + 1]
  /\ attemptsMade' = attemptsMade + 1
  /\ UNCHANGED <<selectionVars, fetchVars, mutationVars, toastVars,
                 queryVars, retryingVars>>

\* The call of queryFn has ended with a failure: its promise rejects.
taskQueryFnRejects ==
  /\ queries[TaskKey].inFlight = 1
  /\ call.status = "settled"
  /\ call.result.tag = "Left"
  /\ queries' = [queries EXCEPT ![TaskKey] = afterRejection(@)]
  /\ lastAccess' = NoAccess
  /\ call' = NoCall
  /\ UNCHANGED <<queryUser, queryNow>>
  /\ UNCHANGED <<selectionVars, fetchVars, mutationVars, toastVars,
                 retryingVars, loadVars>>

\* The delay of the query's retry is over.
taskQueryRetryFires ==
  /\ queryUser = 1
  /\ queryRetryFires(TaskKey)

LoadNext ==
  \/ selectForLoad
  \/ queryFnRuns
  \/ attemptFails
  \/ retrySends
  \/ taskQueryFnRejects
  \/ taskQueryRetryFires

LoadFairness ==
  /\ WF_vars(queryFnRuns)
  /\ WF_vars(attemptFails)
  /\ WF_vars(retrySends)
  /\ WF_vars(taskQueryFnRejects)
  /\ WF_vars(taskQueryRetryFires)

LoadSpec == QueryInit /\ [][LoadNext]_vars /\ LoadFairness

(***************************************************************************)
(* Properties of the client calls.                                         *)
(***************************************************************************)
Settled == call.status = "settled"

\* The calls that go through the shared HTTP module.
ThroughHttpCore == call.kind \in {"listTasksForUser", "updateTask"}

TransportFailure(x) == x.type \in {"rejected", "timeout"}

NonDecreasing(s) == \A i, j \in DOMAIN s : i < j => s[i] <= s[j]

DomainErrorTags ==
  {"NetworkError", "ValidationError", "NotFoundError", "UnauthorizedError",
   "ServerError"}

TerminalTags ==
  {"ValidationError", "NotFoundError", "UnauthorizedError", "ServerError"}

\* C15 (as stated): a read whose every attempt fails with Network has made
\* exactly 4 requests when its failure is returned, with non-decreasing
\* waits between them.
C15_NetworkReadTriedFourTimes ==
  ( /\ Settled
    /\ call.kind \in {"listUsers", "listTasksForUser"}
    /\ \A i \in DOMAIN call.log : TransportFailure(call.log[i]) )
  => /\ call.attempts = 4
     /\ Len(call.log) = 4
     /\ Len(call.waits) = 3
     /\ NonDecreasing(call.waits)

\* C16: an attempt that fails with NotFound, Unauthorized, Validation or
\* ServerError is the last request of its call, and its failure is the
\* result of the call; as the first attempt it makes the call one request.
C16_TerminalFailuresNotRetried ==
  /\ \A i \in DOMAIN call.outcomes :
       ( /\ call.outcomes[i].tag = "Left"
         /\ call.outcomes[i].left.tag \in TerminalTags )
       => /\ i = Len(call.outcomes)
          /\ Settled
          /\ call.attempts = i
          /\ call.result = call.outcomes[i]
  /\ ( /\ Settled
       /\ call.result.tag = "Left"
       /\ call.result.left.tag \in TerminalTags )
       => call.attempts = Len(call.log)

\* C16 witness: the first request of a read was answered 500 and the call
\* ended there with a ServerError.
C16_Witness ==
  /\ Settled
  /\ call.kind = "listTasksForUser"
  /\ call.attempts = 1
  /\ call.log[1].status = 500
  /\ call.result = Left(serverError(500))

C19_BadBodyIsValidation ==
  ThroughHttpCore =>
    \A i \in DOMAIN call.log :
      ( /\ call.log[i].type = "response"
        /\ ResponseOk(call.log[i].status)
        /\ call.log[i].body \in {"notjson", "mismatch"} )
      => /\ Settled
         /\ i = Len(call.log)
         /\ call.result = Left(validationError)

\* C20 (as stated): every client call (listUsers, listTasksForUser,
\* updateTask) ends with an explicit result: a success, or a failure that
\* is one of the five error variants.
C20_CallsEndWithVariant ==
  Settled =>
    /\ call.result.tag \in {"Left", "Right"}
    /\ call.result.tag = "Left" => call.result.left.tag \in DomainErrorTags

(***************************************************************************)
(* Properties of the optimistic update.                                    *)
(***************************************************************************)
IsSettled(k) == mutations[k].status \in {"success", "error"}

\* The cached tasks with the id given in an entry.
TasksOf(entry, id) ==
  { entry.data[i] : i \in { j \in DOMAIN entry.data : entry.data[j].id = id } }

SameList(e1, e2) == e1.has = e2.has /\ e1.data = e2.data

\* C11 (as stated): after a successful updateTask settles, the cached task
\* equals the task echoed by the server.
C11_Original ==
  \A k \in DOMAIN mutations :
    mutations[k].status = "success" =>
      \A t \in TasksOf(observed[k].afterSettle[mutations[k].mutateUser],
                       mutations[k].variables.id) :
        t = mutations[k].data

\* C11 (amended): a successful updateTask writes no task into the cache
\* when it settles: every cached list is the same right after the settling
\* as right before it, whatever the server echoed, and the entry of the
\* selected user is marked for refetch.
C11_SuccessKeepsCachedLists ==
  \A k \in DOMAIN mutations :
    mutations[k].status = "success" =>
      /\ \A u \in CacheKeys :
           SameList(observed[k].afterSettle[u], observed[k].beforeSettle[u])
      /\ observed[k].afterSettle[observed[k].settleUser].invalidated

\* C11 witness: the server echoed a task that differs from the candidate,
\* and the cached task after the settling is the candidate.
C11_Witness ==
  \E k \in DOMAIN mutations :
    /\ mutations[k].status = "success"
    /\ mutations[k].data # mutations[k].variables
    /\ TasksOf(observed[k].afterSettle[mutations[k].mutateUser],
               mutations[k].variables.id) = {mutations[k].variables}

\* C12 (as stated): after a failed updateTask settles, the cached list of
\* the user whose task was toggled equals the list as it was right before
\* the optimistic replacement.
C12_FailureRestoresList ==
  \A k \in DOMAIN mutations :
    mutations[k].status = "error" =>
      SameList(observed[k].afterSettle[mutations[k].mutateUser],
               observed[k].listBefore)

\* C13 (as stated): no two pending mutations are for the same task id.
C13_OneMutationPerTask ==
  \A j, k \in DOMAIN mutations :
    ( /\ j # k
      /\ mutations[j].status = "pending"
      /\ mutations[k].status = "pending" )
    => mutations[j].variables.id # mutations[k].variables.id

\* The completed values that succeeded writes sent or got back for a task.
ConfirmedValues(id) ==
  UNION { {mutations[k].variables.completed, mutations[k].data.completed} :
            k \in { j \in DOMAIN mutations :
                      /\ mutations[j].status = "success"
                      /\ mutations[j].variables.id = id } }

\* C14 (as stated): toggles of one user's list, the selection unchanged
\* when they settle; once all have settled, each toggled task's cached
\* completed value is one the server confirmed for it or its value before
\* the toggles.
C14_ConfirmedOrReverted ==
  ( /\ mutations # <<>>
    /\ \A k \in DOMAIN mutations :
         /\ IsSettled(k)
         /\ mutations[k].mutateUser = 1
         /\ observed[k].settleUser = 1 )
  => \A k \in DOMAIN mutations :
       LET id == mutations[k].variables.id
       IN \A t \in TasksOf(cache[1], id) :
            \/ t.completed \in ConfirmedValues(id)
            \/ \E t0 \in TasksOf(observed[1].listBefore, id) :
                 t.completed = t0.completed

(***************************************************************************)
(* Further properties of the selection operations and of the retries.      *)
(***************************************************************************)
BothAxesChanged == SelectedNow # SelectedBefore /\ HideNow # HideBefore

\* C26 (as stated): selectUser is the only operation whose step can change
\* both the selected user and hideCompleted.
C26_Original == BothAxesChanged => lastOp.op = "selectUser"

\* C26 (amended): selectUser and clearSelection are the only operations
\* whose step can change both the selected user and hideCompleted;
\* toggleHideCompleted and setHideCompleted change at most hideCompleted.
C26_OnlySelectAndClearCrossAxes ==
  /\ BothAxesChanged => lastOp.op \in {"selectUser", "clearSelection"}
  /\ lastOp.op \in {"toggleHideCompleted", "setHideCompleted"} =>
       SelectedNow = SelectedBefore

\* C26 witness: clearSelection ran with a user selected and the filter on,
\* and changed both.
C26_Witness ==
  /\ lastOp.op = "clearSelection"
  /\ BothAxesChanged
  /\ SelectedBefore.tag = "Some"
  /\ HideBefore

C24_CloseAtMostOnce == toastUi.closes <= 1

(***************************************************************************)
(* Further properties of the optimistic update.                            *)
(***************************************************************************)
\* C21 (as stated): when the write of a toggle settles, with success or
\* with failure, the task cache entry of the user whose task was toggled is
\* marked for refetch.
C21_SettleMarksAffectedEntry ==
  \A k \in DOMAIN mutations :
    IsSettled(k) =>
      observed[k].afterSettle[mutations[k].mutateUser].invalidated

C25_ContinuationsKeepOtherLists ==
  \A k \in DOMAIN mutations :
    IsSettled(k) =>
      \A u \in CacheKeys \ {mutations[k].mutateUser} :
        SameList(observed[k].afterSettle[u], observed[k].beforeSettle[u])

\* C27 (as stated): in every state in which the write of a toggle is
\* pending, the cached task of its id is the candidate.
C27_CandidateCachedWhilePending ==
  \A k \in DOMAIN mutations :
    (mutations[k].status = "pending" /\ mutations[k].context.has) =>
      TasksOf(cache[mutations[k].mutateUser], mutations[k].variables.id)
        = {mutations[k].variables}

\* C28 (as stated): within one cache key no mutation takes its snapshot
\* between the snapshot and the settling of another mutation: two
\* mutations of one key are never pending together.
C28_OneSequencePerKey ==
  \A j, k \in DOMAIN mutations :
    ( /\ j # k
      /\ mutations[j].status = "pending"
      /\ mutations[k].status = "pending" )
    => mutations[j].mutateUser # mutations[k].mutateUser

ReadyAccess == lastAccess.hadData /\ ~lastAccess.wasError

OtherParams(p) == (DOMAIN p) \ {"userId", "hideCompleted"}

C36_ToggleInvolutionSetIdempotent ==
  /\ lastOp.op = "toggleHideCompleted" =>
       SelectionState(toggleHideCompletedUpdate(searchParams))
         = SelectionState(prevParams)
  /\ lastOp.op = "setHideCompleted" =>
       setHideCompletedUpdate(searchParams, lastOp.value) = searchParams

\* C36 witness: toggleHideCompleted ran on an address whose hideCompleted
\* text was not 'true'; a second run gives back the logical state but not
\* that address.
C36_Witness ==
  /\ lastOp.op = "toggleHideCompleted"
  /\ ParamsHas(prevParams, "hideCompleted")
  /\ ~HideBefore
  /\ HideNow
  /\ toggleHideCompletedUpdate(searchParams) # prevParams
  /\ SelectionState(toggleHideCompletedUpdate(searchParams))
       = SelectionState(prevParams)

(***************************************************************************)
(* Further properties of the optimistic update.                            *)
(***************************************************************************)
\* A step is the start of a toggle.
ToggleStarts == Len(mutations') = Len(mutations) + 1

\* C37: the optimistic step of a toggle, when a list is cached, inverts
\* completed in the cached task of the toggled id and changes nothing else:
\* the other tasks, the id and userId of the task, the length and order of
\* the list and the other entries are as before; the task toggled is
\* still, unchanged, in the snapshot.
C37_OptimisticStepChangesOneFlag ==
  [][ (ToggleStarts /\ cache[hookUser].has) =>
        LET m == mutations'[Len(mutations')]
            old == cache[hookUser].data
            new == cache'[hookUser].data
        IN /\ cache'[hookUser].has
           /\ Len(new) = Len(old)
           /\ \A i \in DOMAIN old :
                IF old[i].id = m.variables.id
                THEN new[i] = [old[i] EXCEPT !.completed = ~old[i].completed]
                ELSE new[i] = old[i]
           /\ \A u \in CacheKeys \ {hookUser} : cache'[u] = cache[u]
           /\ m.context.previousTodos = old
           /\ observed'[Len(mutations')].listBefore = cache[hookUser] ]_vars

\* C37 witness: a toggle of a task of a two-task list is pending; the
\* cached list differs from the snapshot in the flag of that task alone.
C37_Witness ==
  /\ Len(mutations) = 1
  /\ mutations[1].status = "pending"
  /\ mutations[1].context.has
  /\ Len(mutations[1].context.previousTodos) = 2
  /\ cache[mutations[1].mutateUser].data # mutations[1].context.previousTodos
  /\ \E i \in 1..2 :
       /\ cache[mutations[1].mutateUser].data[i]
            = toggleCompleted(mutations[1].context.previousTodos[i])
       /\ cache[mutations[1].mutateUser].data[3 - i]
            = mutations[1].context.previousTodos[3 - i]

NoListStepsWriteNothing ==
  \A k \in DOMAIN mutations :
    (IsSettled(k) /\ ~mutations[k].context.has) =>
      /\ observed[k].afterMutate[mutations[k].mutateUser]
           = observed[k].listBefore
      /\ \A u \in CacheKeys :
           SameList(observed[k].afterSettle[u], observed[k].beforeSettle[u])
      /\ observed[k].settleUser = mutations[k].mutateUser =>
           observed[k].afterSettle[mutations[k].mutateUser].invalidated

(***************************************************************************)
(* Properties of the hook while no user is selected.                       *)
(***************************************************************************)
\* C39: while no user is selected no task request is going on, and the
\* todos the hook returns are empty.
C39_NoneSelectedNoFetchNoTodos ==
  /\ queryUser = 0 =>
       \A u \in QueryUsers : runsOf(queries[<<"todos", u>>]) = 0
  /\ hookUser = NullKey => todosExposed(cache, hookUser) = <<>>

\* The part of C39 that holds: no step taken while no user is selected
\* runs queryFn of a task query.
NoTaskFetchStartedWhileNone ==
  [][ (queryUser = 0 /\ queryUser' = 0) =>
        \A u \in QueryUsers :
          queries'[<<"todos", u>>].inFlight <= queries[<<"todos", u>>].inFlight
    ]_vars

(***************************************************************************)
(* Properties of the list shown.                                           *)
(***************************************************************************)
\* The list cached for the selected user.
CachedOfSelected == todosExposed(cache, SelectedNow.value)

\* A list is cached for the selected user.
ListCached ==
  /\ SelectedNow.tag = "Some"
  /\ SelectedNow.value \in CacheKeys
  /\ cache[SelectedNow.value].has

\* s is t without the elements for which completed holds, in the order of t.
IsOpenPartOf(s, t) ==
  /\ \A i \in DOMAIN s : ~s[i].completed
  /\ Len(s) = Cardinality({ i \in DOMAIN t : ~t[i].completed })
  /\ \E f \in [DOMAIN s -> DOMAIN t] :
       /\ \A i \in DOMAIN s : t[f[i]] = s[i]
       /\ \A i, j \in DOMAIN s : i < j => f[i] < f[j]

C33_RetriesThriceWithBackoff ==
  retrying.status = "settled" =>
    /\ retrying.rounds <= 1 + DEFAULT_MAX_RETRIES
    /\ \A i \in DOMAIN retrying.retryWaits :
         retrying.retryWaits[i] = DEFAULT_RETRY_DELAY * (2 ^ (i - 1))
    /\ ( /\ call.result.tag = "Left"
         /\ call.result.left.tag # "NetworkError" )
       => retrying.result = call.result

\* The parts of C33 that hold: at most 3 retries of fetchTodosByUserId,
\* only after a NetworkError; they are made at once, and each of the
\* rounds makes up to 4 requests.
RetriesOnlyAfterNetworkError ==
  /\ retrying.rounds <= 1 + DEFAULT_MAX_RETRIES
  /\ retrying.requests <= (1 + DEFAULT_MAX_RETRIES) * (1 + DEFAULT_RETRIES)
  /\ \A i \in DOMAIN retrying.retryWaits : retrying.retryWaits[i] = 0
  /\ retrying.status = "settled" =>
       /\ retrying.result = call.result
       /\ retrying.result = Left(networkError) =>
            /\ retrying.rounds = 1 + DEFAULT_MAX_RETRIES
            /\ retrying.requests
                 = (1 + DEFAULT_MAX_RETRIES) * (1 + DEFAULT_RETRIES)
       /\ retrying.result # Left(networkError) =>
            Len(call.outcomes) >= 1

AutoHides ==
  toastUi.clicks = 0 /\ toastUi'.clicks = 0
    /\ toastUi.isVisible /\ ~toastUi'.isVisible

AutoCloses == toastUi.clicks = 0 /\ toastUi'.closes = toastUi.closes + 1

\* The notice is no longer shown after its one automatic close, or it was
\* dismissed by hand.
ClosedOrDismissed ==
  \/ toastUi.clicks > 0
  \/ toastUi.closes = 1 /\ ~toastUi.mounted

\* C31 (as stated): a displayed notice that is not dismissed by hand is
\* hidden by its timer 3000 ms after it was shown, has onClose called by
\* its timer 300 ms later, and then is no longer shown; this eventually
\* happens.
C31_AutoExpires ==
  /\ [][/\ AutoHides => toastUi.now = DEFAULT_DURATION
        /\ AutoCloses => /\ ~toastUi.isVisible
                         /\ toastUi.now = DEFAULT_DURATION + HIDE_ANIMATION
                         /\ ~toastUi'.mounted]_vars
  /\ toastUi.mounted ~> ClosedOrDismissed

\* What holds of the automatic expiry: the notice not dismissed by hand is
\* eventually closed by its timer, 300 ms after the timer that hid it was
\* due, both counted from the last run of the effect and not from the
\* moment the notice was shown.
ExpiresAfterLastEffect ==
  /\ [][/\ AutoHides =>
             /\ toastUi.now = toastUi.hideTimer.due
             /\ toastUi.closeTimer = Timer(toastUi.now + HIDE_ANIMATION)
             /\ toastUi.now >= DEFAULT_DURATION
        /\ AutoCloses => /\ ~toastUi.isVisible
                         /\ toastUi.now = toastUi.closeTimer.due
                         /\ ~toastUi'.mounted]_vars
  /\ toastUi.mounted ~> ClosedOrDismissed

\* A notice closed by its timer later than 3300 ms after it was shown.
ClosedLate ==
  /\ toastUi.clicks = 0
  /\ toastUi.closes = 1
  /\ ~toastUi.mounted
  /\ toastUi.renders > 0
  /\ toastUi.now > DEFAULT_DURATION + HIDE_ANIMATION

=============================================================================
